---- MODULE Spec2Model ----
(***************************************************************************)
(* Model of device_streaming_with_kafka.py: the Streaming_ETL job that     *)
(* reads device reports from Kafka, derives one cpu_temp per report and    *)
(* writes every micro-batch to Postgres over JDBC.                         *)
(*                                                                         *)
(* Two specifications share the module:                                    *)
(*   SpecT  applies process + transform to one Kafka record drawn from a   *)
(*          wide set of payload shapes (the derivation claims);            *)
(*   Spec   runs start_streaming: micro-batches over a small set of        *)
(*          records, the JDBC write in the configured mode, the commit of  *)
(*          the batch, failure and interruption (the pipeline claims).     *)
(*                                                                         *)
(* Spark values are tagged records.  A float/double is an exact rational   *)
(* [t |-> "num", num, den] in lowest terms, so a mean is the true mean.    *)
(***************************************************************************)
EXTENDS Integers, Sequences, FiniteSets, TLC

\* ------------------------------------------------------------------ bounds
MaxZones == 2      \* longest thermal_zones array in a payload
MaxSensors == 2    \* most entries of a sensors object in a payload
MaxBatch == 2      \* most Kafka records in one micro-batch
MaxBatches == 2    \* micro-batches started in one run

\* ------------------------------------------------------- value constructors
NULL == [t |-> "NULL"]                  \* SQL NULL
ERROR == [t |-> "ERROR"]                \* the expression raised (ANSI mode)

RECURSIVE GCD(_, _)
GCD(a, b) == IF b = 0 THEN a ELSE GCD(b, a % b)

Abs(n) == IF n < 0 THEN -n ELSE n

\* the rational n/d (d > 0) in lowest terms
Rat(n, d) ==
    LET g == GCD(Abs(n), d)
    IN [t |-> "num", num |-> n \div g, den |-> d \div g]

Num(n) == Rat(n, 1)

Str(s) == [t |-> "string", s |-> s]         \* a string of plain characters
JsonText(j) == [t |-> "jsontext", j |-> j]  \* the string that serialises j
Binary(v) == [t |-> "binary", b |-> v]      \* the bytes that encode string v
Arr(a) == [t |-> "array", a |-> a]
Map(m) == [t |-> "map", m |-> m]

\* JSON values
JNull == [t |-> "jnull"]
JNum(n) == [t |-> "jnum", n |-> n]
JStr(s) == [t |-> "jstr", s |-> s]
JArr(a) == [t |-> "jarr", a |-> a]
JObj(o) == [t |-> "jobj", o |-> o]          \* o: sequence of [k, v], keys distinct
Garbage == [t |-> "garbage"]                \* text that is not JSON
Missing == [t |-> "missing"]                \* the path matches nothing

\* ------------------------------------------------------------ the payloads
ZoneNums == {40, 44}
SensorNums == {55, 60}
SensorKeys == {"CPU", "GPU", "SOC"}
ValidTimestamps == {"2024-01-01T00:00:00Z"}

RECURSIVE SeqsUpTo(_, _)
SeqsUpTo(S, n) ==
    IF n = 0 THEN {<<>>}
    ELSE LET shorter == SeqsUpTo(S, n - 1)
         IN shorter \cup {Append(s, x) : s \in {q \in shorter : Len(q) = n - 1}, x \in S}

ZoneElems == {JNum(n) : n \in ZoneNums} \cup {JNull}
ZoneArrays == {JArr(a) : a \in SeqsUpTo(ZoneElems, MaxZones)}

SensorVals == {JNum(n) : n \in SensorNums} \cup {JNull}
SensorEntries == {[k |-> k, v |-> v] : k \in SensorKeys, v \in SensorVals}
DistinctKeys(o) == \A i, j \in 1..Len(o) : i # j => o[i].k # o[j].k
SensorObjects == {JObj(o) : o \in {q \in SeqsUpTo(SensorEntries, MaxSensors) : DistinctKeys(q)}}

\* what a payload may carry at cpu.thermal_zones, cpu.sensors, cpu.sensors_cpu
ZoneFields == {Missing, JNull, JStr("hot")} \cup ZoneArrays
SensorFields == {Missing, JNull, JNum(55)} \cup SensorObjects
SensorsCpuFields == {Missing, JNum(55)}

\* an object with the given entries, the Missing ones left out
RECURSIVE Present(_)
Present(o) ==
    IF o = <<>> THEN <<>>
    ELSE IF Head(o).v = Missing THEN Present(Tail(o))
         ELSE <<Head(o)>> \o Present(Tail(o))

MkObj(o) == JObj(Present(o))

MkCpu(tz, sens, scpu) ==
    MkObj(<<[k |-> "thermal_zones", v |-> tz], [k |-> "sensors", v |-> sens],
            [k |-> "sensors_cpu", v |-> scpu]>>)

MkDoc(device, at, cpu) ==
    MkObj(<<[k |-> "device", v |-> device], [k |-> "collected_at", v |-> at],
            [k |-> "cpu", v |-> cpu]>>)

CpuFields ==
    {Missing, JNum(1)}
        \cup {MkCpu(tz, sens, scpu) : tz \in ZoneFields, sens \in SensorFields,
                                      scpu \in SensorsCpuFields}

\* a Kafka record: key and value are bytes or null
KafkaRecord(key, value) == [key |-> key, value |-> value]

DocRecords ==
    {KafkaRecord(Binary(Str("k1")), Binary(JsonText(MkDoc(JStr("pi1"), at, cpu)))) :
        at \in {Missing, JStr("2024-01-01T00:00:00Z"), JStr("yesterday")},
        cpu \in CpuFields}

OddRecords ==
    {KafkaRecord(Binary(Str("k1")), Binary(Str("{not json"))),
     KafkaRecord(NULL, NULL),
     KafkaRecord(NULL, Binary(JsonText(MkDoc(Missing, JStr("yesterday"), Missing)))),
     KafkaRecord(Binary(Str("k1")), Binary(JsonText(MkDoc(JNum(7), Missing,
                    MkCpu(Missing, Missing, JNum(55))))))}

AllRecords == DocRecords \cup OddRecords

\* ------------------------------------------------- Spark SQL expressions
\* cast(binary as string): the bytes decoded as text; NULL stays NULL
CastString(v) == IF v = NULL THEN NULL ELSE IF v.t = "binary" THEN v.b ELSE v

\* DataFrame.fillna(0): a numeric column's NULL becomes 0; a string column is
\* left alone by a numeric fill value
Fillna(v, isNumeric) == IF isNumeric /\ v = NULL THEN Num(0) ELSE v

\* the JSON value a string holds; none of the plain strings above is JSON text
ParseJson(v) == IF v.t = "jsontext" THEN v.j ELSE Garbage

\* the value of the first entry of object o under key k
RECURSIVE Lookup(_, _)
Lookup(o, k) ==
    IF o = <<>> THEN Missing
    ELSE IF Head(o).k = k THEN Head(o).v ELSE Lookup(Tail(o), k)

RECURSIVE Walk(_, _)
Walk(j, path) ==
    IF path = <<>> THEN j
    ELSE IF j.t = "jobj" THEN Walk(Lookup(j.o, Head(path)), Tail(path))
         ELSE Missing

\* get_json_object(text, '$.path'): NULL for NULL or unparseable text, for a
\* path that matches nothing and for a JSON null; a JSON string unquoted; any
\* other value as its JSON text
get_json_object(v, path) ==
    IF v = NULL THEN NULL
    ELSE LET j == Walk(ParseJson(v), path)
         IN CASE j.t \in {"garbage", "missing", "jnull"} -> NULL
              [] j.t = "jstr" -> Str(j.s)
              [] OTHER -> JsonText(j)

\* a cast of an invalid string is NULL, or raises under spark.sql.ansi.enabled
Invalid(ansiOn) == IF ansiOn THEN ERROR ELSE NULL

\* cast(string as float)
CastFloat(v, ansiOn) ==
    IF v = NULL THEN NULL
    ELSE IF v.t = "jsontext" /\ v.j.t = "jnum" THEN Num(v.j.n)
         ELSE Invalid(ansiOn)

\* cast(string as timestamp); a timestamp is kept as its canonical text
CastTimestamp(v, ansiOn) ==
    IF v = NULL THEN NULL
    ELSE IF v.t = "string" /\ v.s \in ValidTimestamps THEN [t |-> "timestamp", s |-> v.s]
         ELSE Invalid(ansiOn)

\* a JSON number or null as a nullable float
FloatOf(j) == IF j.t = "jnum" THEN Num(j.n) ELSE NULL

IsFloatOrNull(j) == j.t \in {"jnum", "jnull"}

\* from_json(text, 'array<float>'): NULL unless the text is an array of numbers
from_json_array(v) ==
    IF v = NULL THEN NULL
    ELSE LET j == ParseJson(v)
         IN IF j.t = "jarr" /\ \A i \in 1..Len(j.a) : IsFloatOrNull(j.a[i])
            THEN Arr([i \in 1..Len(j.a) |-> FloatOf(j.a[i])])
            ELSE NULL

\* from_json(text, 'map<string,float>'): the entries in the text's order
from_json_map(v) ==
    IF v = NULL THEN NULL
    ELSE LET j == ParseJson(v)
         IN IF j.t = "jobj" /\ \A i \in 1..Len(j.o) : IsFloatOrNull(j.o[i].v)
            THEN Map([i \in 1..Len(j.o) |-> [k |-> j.o[i].k, v |-> FloatOf(j.o[i].v)]])
            ELSE NULL

\* aggregate(a, cast(0.0 as double), (acc, x) -> acc + x): NULL + x is NULL
RECURSIVE aggregate(_, _)
aggregate(a, acc) ==
    IF a = <<>> THEN acc
    ELSE IF acc = NULL \/ Head(a) = NULL THEN aggregate(Tail(a), NULL)
         ELSE aggregate(Tail(a), Rat(acc.num * Head(a).den + Head(a).num * acc.den,
                                     acc.den * Head(a).den))

\* x / n: NULL for a zero divisor (an error under ANSI) and for a NULL operand
Divide(x, n, ansiOn) ==
    IF n = 0 THEN (IF ansiOn /\ x # NULL THEN ERROR ELSE NULL)
    ELSE IF x = NULL THEN NULL ELSE Rat(x.num, x.den * n)

\* element_at as a slip would have it: the last element instead of the i-th
element_at_last(a, i, ansiOn) == IF Len(a) > 0 THEN a[Len(a)] ELSE Invalid(ansiOn)

\* element_at(a, i) for i >= 1: NULL past the end (an error under ANSI)
element_at(a, i, ansiOn) == IF i <= Len(a) THEN a[i] ELSE Invalid(ansiOn)

map_values(m) == [i \in 1..Len(m.m) |-> m.m[i].v]

\* coalesce as a slip would have it: 0 instead of NULL when every argument is NULL
RECURSIVE coalesce_zero(_)
coalesce_zero(args) ==
    IF args = <<>> THEN Num(0)
    ELSE IF Head(args) # NULL THEN Head(args) ELSE coalesce_zero(Tail(args))

\* coalesce: the first argument that is not NULL; an argument that raises is
\* reached only when every argument before it is NULL
RECURSIVE coalesce(_)
coalesce(args) ==
    IF args = <<>> THEN NULL
    ELSE IF Head(args) # NULL THEN Head(args) ELSE coalesce(Tail(args))

\* the position of the argument coalesce returns, 0 when all are NULL
RECURSIVE coalesceIndex(_, _)
coalesceIndex(args, i) ==
    IF args = <<>> THEN 0
    ELSE IF Head(args) # NULL THEN i ELSE coalesceIndex(Tail(args), i + 1)

\* ------------------------------------------------------------ Streaming_ETL
\* process: key and value cast to string, then fillna(0) over two string columns
process(rec) ==
    [key |-> Fillna(CastString(rec.key), FALSE),
     json_value |-> Fillna(CastString(rec.value), FALSE)]

\* the first select as a slip would have it: sensors_cpu read at $.cpu.sensors_cpu
decoded_flat(p, ansiOn) ==
    [key |-> p.key,
     device |-> CastString(get_json_object(p.json_value, <<"device">>)),
     collected_at |-> CastTimestamp(get_json_object(p.json_value, <<"collected_at">>), ansiOn),
     thermal_zones |-> from_json_array(get_json_object(p.json_value, <<"cpu", "thermal_zones">>)),
     sensors_cpu |-> CastFloat(get_json_object(p.json_value, <<"cpu", "sensors_cpu">>), ansiOn),
     sensors |-> from_json_map(get_json_object(p.json_value, <<"cpu", "sensors">>))]

\* transform, first select: the six decoded columns
decoded(p, ansiOn) ==
    [key |-> p.key,
     device |-> CastString(get_json_object(p.json_value, <<"device">>)),
     collected_at |-> CastTimestamp(get_json_object(p.json_value, <<"collected_at">>), ansiOn),
     thermal_zones |-> from_json_array(get_json_object(p.json_value, <<"cpu", "thermal_zones">>)),
     sensors_cpu |-> CastFloat(get_json_object(p.json_value, <<"cpu", "sensors", "CPU">>), ansiOn),
     sensors |-> from_json_map(get_json_object(p.json_value, <<"cpu", "sensors">>))]

\* the coalesce arguments as a slip would order them: sensors_cpu first
branches_cpu_first(r, ansiOn) ==
    <<IF r.sensors_cpu # NULL THEN r.sensors_cpu ELSE NULL,
      IF r.thermal_zones # NULL
        THEN Divide(aggregate(r.thermal_zones.a, Num(0)), Len(r.thermal_zones.a), ansiOn)
        ELSE NULL,
      IF r.sensors # NULL THEN element_at(map_values(r.sensors), 1, ansiOn) ELSE NULL>>

\* the coalesce arguments as a slip would order them: sensors before sensors_cpu
branches_map_first(r, ansiOn) ==
    <<IF r.thermal_zones # NULL
        THEN Divide(aggregate(r.thermal_zones.a, Num(0)), Len(r.thermal_zones.a), ansiOn)
        ELSE NULL,
      IF r.sensors # NULL THEN element_at(map_values(r.sensors), 1, ansiOn) ELSE NULL,
      IF r.sensors_cpu # NULL THEN r.sensors_cpu ELSE NULL>>

\* the three arguments of the coalesce that defines cpu_value; F.when without
\* otherwise is NULL when its condition is false and evaluates its value only
\* when the condition is true
branches(r, ansiOn) ==
    <<IF r.thermal_zones # NULL
        THEN Divide(aggregate(r.thermal_zones.a, Num(0)), Len(r.thermal_zones.a), ansiOn)
        ELSE NULL,
      IF r.sensors_cpu # NULL THEN r.sensors_cpu ELSE NULL,
      IF r.sensors # NULL THEN element_at(map_values(r.sensors), 1, ansiOn) ELSE NULL>>

cpu_value(r, ansiOn) == coalesce(branches(r, ansiOn))

\* which argument supplied cpu_value: 1 thermal_zones, 2 sensors_cpu, 3 sensors
cpu_branch(r, ansiOn) == coalesceIndex(branches(r, ansiOn), 1)

\* transform, withColumn('cpu_value', ...): the decoded columns and cpu_value
derived(r, ansiOn) ==
    [key |-> r.key, device |-> r.device, collected_at |-> r.collected_at,
     thermal_zones |-> r.thermal_zones, sensors_cpu |-> r.sensors_cpu,
     sensors |-> r.sensors, cpu_value |-> cpu_value(r, ansiOn)]

\* transform: the row written for one processed record, or ERROR when one of
\* its expressions raises (which fails the job that evaluates the row)
transform(p, ansiOn) ==
    LET r == derived(decoded(p, ansiOn), ansiOn)
    IN IF ERROR \in {r.collected_at, r.sensors_cpu, r.cpu_value} THEN ERROR
       ELSE [key |-> r.key, device |-> r.device, collected_at |-> r.collected_at,
             cpu_temp |-> r.cpu_value, gpu_temp |-> 0]

\* -------------------------------------------------------------------- state
VARIABLES
    ansi,        \* spark.sql.ansi.enabled of the session (the code leaves the default)
    rec,         \* SpecT: the Kafka record under transformation
    inter,       \* SpecT: its decoded columns and cpu_value, NULL before transform
    canon,       \* SpecT: its output row, NULL before transform
    pc,          \* SpecT: "read", "processed", "done"
    mode,        \* database_info['mode']
    tableExists, \* the destination table exists
    sink,        \* the rows of the destination table
    sink0,       \* the rows the table held when the query started
    batch,       \* the Kafka records of the micro-batch in flight
    phase,       \* "Idle", "Running", "Committing", "Failed", "Stopped"
    batchId,     \* the id of the next batch to construct
    committed,   \* the offset up to which batches are committed
    lastWrite,   \* how the latest write_to_postgres call ended
    written,     \* the DataFrames of the calls that succeeded, in order
    result       \* start_streaming: "blocked", "raised", "interrupted"

tvars == <<rec, inter, canon, pc>>
pvars == <<mode, tableExists, sink, sink0, batch, phase, batchId,
           committed, lastWrite, written, result>>
vars == <<ansi, rec, inter, canon, pc, mode, tableExists, sink, sink0,
          batch, phase, batchId, committed, lastWrite, written, result>>

\* ------------------------------------------------ SpecT: one record at a time
PipelineIdle ==
    /\ mode = "append" /\ tableExists = FALSE /\ sink = <<>> /\ sink0 = <<>>
    /\ batch = <<>> /\ phase = "Idle" /\ batchId = 0
    /\ committed = 0 /\ lastWrite = "none" /\ written = <<>> /\ result = "blocked"

InitT ==
    /\ ansi \in BOOLEAN
    /\ rec \in AllRecords
    /\ inter = NULL /\ canon = NULL /\ pc = "read"
    /\ PipelineIdle

ProcessT ==
    /\ pc = "read"
    /\ pc' = "processed"
    /\ UNCHANGED <<ansi, rec, inter, canon, pvars>>

TransformT ==
    /\ pc = "processed"
    /\ inter' = derived(decoded(process(rec), ansi), ansi)
    /\ canon' = transform(process(rec), ansi)
    /\ pc' = "done"
    /\ UNCHANGED <<ansi, rec, pvars>>

NextT == ProcessT \/ TransformT

SpecT == InitT /\ [][NextT]_vars

\* ------------------------------------------ Spec: the streaming query
Modes == {"append", "overwrite", "ignore", "error"}

\* the records the topic may carry in Spec: one with an unparseable value and
\* a report with an empty thermal_zones array and a CPU sensor (its row has
\* cpu_temp 55, or raises under ANSI mode)
MalformedRecord == KafkaRecord(Binary(Str("k1")), Binary(Str("{not json")))

EmptyZonesRecord ==
    KafkaRecord(Binary(Str("k1")),
        Binary(JsonText(MkDoc(JStr("pi1"), JStr("2024-01-01T00:00:00Z"),
            MkCpu(JArr(<<>>), JObj(<<[k |-> "CPU", v |-> JNum(55)]>>), Missing)))))

TopicRecords == {MalformedRecord, EmptyZonesRecord}

\* a row a previous run left in the destination table
OldRow ==
    [key |-> Str("k0"), device |-> Str("pi0"), collected_at |-> NULL,
     cpu_temp |-> Num(55), gpu_temp |-> 0]

\* the batch's DataFrame as a slip would have it: records whose value is not
\* JSON filtered out before the transform
merged_df_dropping(b, ansiOn) ==
    LET kept == SelectSeq(b, LAMBDA r : r.value = NULL \/ ParseJson(CastString(r.value)) # Garbage)
    IN [i \in 1..Len(kept) |-> transform(process(kept[i]), ansiOn)]

\* extract, process, transform over the records of one micro-batch: the
\* DataFrame handed to write_to_postgres, one row per Kafka record
merged_df(b, ansiOn) == [i \in 1..Len(b) |-> transform(process(b[i]), ansiOn)]

Raises(df) == \E i \in 1..Len(df) : df[i] = ERROR

\* all subsequences of s, order kept
RECURSIVE SubSeqs(_)
SubSeqs(s) ==
    IF s = <<>> THEN {<<>>}
    ELSE LET rest == SubSeqs(Tail(s))
         IN rest \cup {<<Head(s)>> \o q : q \in rest}

\* the write as a slip would have it: the mode never passed on, so every
\* write appends
write_to_postgres_appending(df, m, exists, rows) ==
    IF ~exists THEN [exists |-> TRUE, rows |-> df]
    ELSE IF m \in {"append", "overwrite"} THEN [exists |-> TRUE, rows |-> rows \o df]
         ELSE [exists |-> TRUE, rows |-> rows]

\* batch_df.write.format("jdbc").mode(m).save() when it succeeds: the table's
\* existence and rows afterwards.  An existing table is replaced (overwrite),
\* extended (append) or left alone (ignore); a missing one is created and filled.
write_to_postgres(df, m, exists, rows) ==
    IF ~exists THEN [exists |-> TRUE, rows |-> df]
    ELSE CASE m = "overwrite" -> [exists |-> TRUE, rows |-> df]
           [] m = "append" -> [exists |-> TRUE, rows |-> rows \o df]
           [] OTHER -> [exists |-> TRUE, rows |-> rows]

\* mode "error" refuses an existing table
Refused(m, exists) == m = "error" /\ exists

\* what a write that does not complete may leave behind: nothing changed, or
\* the table dropped/created and some of the rows committed (each partition
\* commits on its own; a row that raises is never written)
write_outcomes(df, m, exists, rows) ==
    {[exists |-> exists, rows |-> rows]} \cup
    IF exists /\ m \in {"ignore", "error"} THEN {}
    ELSE LET base == IF exists /\ m = "append" THEN rows ELSE <<>>
             good == SelectSeq(df, LAMBDA r : r # ERROR)
         IN {[exists |-> TRUE, rows |-> base \o part] :
                part \in {q \in SubSeqs(good) : q # df \/ df = <<>>}}

TransformIdle == rec = MalformedRecord /\ inter = NULL /\ canon = NULL /\ pc = "idle"

Init ==
    /\ ansi \in BOOLEAN
    /\ mode \in Modes
    /\ tableExists \in BOOLEAN
    /\ sink0 \in IF tableExists THEN {<<>>, <<OldRow>>} ELSE {<<>>}
    /\ sink = sink0
    /\ batch = <<>> /\ phase = "Idle" /\ batchId = 0
    /\ committed = 0 /\ lastWrite = "none" /\ written = <<>> /\ result = "blocked"
    /\ TransformIdle

\* extract at a trigger: the records the topic holds past the committed offset
extract == SeqsUpTo(TopicRecords, MaxBatch)

\* the trigger fires: a batch is constructed when the topic holds records past
\* the committed offset, or when nothing is committed yet (batch 0 may be empty)
ConstructBatch ==
    /\ phase = "Idle"
    /\ batchId < MaxBatches
    /\ \E b \in extract :
        /\ b # <<>> \/ batchId = 0
        /\ batch' = b
    /\ phase' = "Running"
    /\ UNCHANGED <<ansi, tvars, mode, tableExists, sink, sink0, batchId, committed,
                   lastWrite, written, result>>

\* foreachBatch calls write_to_postgres on the batch's rows and it returns
WriteOk ==
    /\ phase = "Running"
    /\ ~Raises(merged_df(batch, ansi))
    /\ ~Refused(mode, tableExists)
    /\ LET after == write_to_postgres(merged_df(batch, ansi), mode, tableExists, sink)
       IN tableExists' = after.exists /\ sink' = after.rows
    /\ written' = Append(written, merged_df(batch, ansi))
    /\ lastWrite' = "ok"
    /\ phase' = "Committing"
    /\ UNCHANGED <<ansi, tvars, mode, sink0, batch, batchId, committed, result>>

\* the batch is committed: the offset moves past it and the loop goes on
Commit ==
    /\ phase = "Committing"
    /\ committed' = committed + Len(batch)
    /\ batchId' = batchId + 1
    /\ phase' = "Idle"
    /\ UNCHANGED <<ansi, tvars, mode, tableExists, sink, sink0, batch,
                   lastWrite, written, result>>

\* the failure as a slip would handle it: the exception swallowed in the batch
\* function, so the batch counts as done and the loop goes on
WriteFail_swallowed ==
    /\ phase = "Running"
    /\ \E after \in write_outcomes(merged_df(batch, ansi), mode, tableExists, sink) :
            tableExists' = after.exists /\ sink' = after.rows
    /\ lastWrite' = "failed"
    /\ phase' = "Committing"
    /\ UNCHANGED <<ansi, tvars, mode, sink0, batch, batchId, committed, written, result>>

\* write_to_postgres raises (a row raises, the mode refuses the table, or the
\* database fails): the query terminates with the exception, nothing is
\* committed, and awaitTermination re-raises it out of start_streaming
WriteFail ==
    /\ phase = "Running"
    /\ \E after \in write_outcomes(merged_df(batch, ansi), mode, tableExists, sink) :
            tableExists' = after.exists /\ sink' = after.rows
    /\ lastWrite' = "failed"
    /\ phase' = "Failed"
    /\ result' = "raised"
    /\ UNCHANGED <<ansi, tvars, mode, sink0, batch, batchId, committed, written>>

\* the interrupt as a slip would handle it: caught around awaitTermination
\* without stopping the query, which keeps running its batches
Interrupt_caught ==
    /\ phase \in {"Idle", "Running", "Committing"}
    /\ result = "blocked"
    /\ result' = "interrupted"
    /\ UNCHANGED <<ansi, tvars, mode, tableExists, sink, sink0, batch, phase, batchId,
                   committed, lastWrite, written>>

\* the driver is interrupted while start_streaming blocks in awaitTermination:
\* the running jobs are cancelled and the interrupt leaves start_streaming
Interrupt ==
    /\ phase \in {"Idle", "Running", "Committing"}
    /\ IF phase = "Running"
       THEN /\ \E after \in write_outcomes(merged_df(batch, ansi), mode, tableExists, sink) :
                    tableExists' = after.exists /\ sink' = after.rows
            /\ lastWrite' = "aborted"
       ELSE UNCHANGED <<tableExists, sink, lastWrite>>
    /\ phase' = "Stopped"
    /\ result' = "interrupted"
    /\ UNCHANGED <<ansi, tvars, mode, sink0, batch, batchId, committed, written>>

Next == ConstructBatch \/ WriteOk \/ Commit \/ WriteFail \/ Interrupt

Spec == Init /\ [][Next]_vars

\* ------------------------------------------- the derivation, checked on SpecT
Done == pc = "done"

\* the JSON value the record's payload holds at a path
PayloadAt(r, path) ==
    IF r.value = NULL THEN Missing ELSE Walk(ParseJson(CastString(r.value)), path)

RECURSIVE SumOf(_)
SumOf(a) == IF a = <<>> THEN 0 ELSE Head(a).num + SumOf(Tail(a))

\* the arithmetic mean of a non-empty array of whole-numbered floats
MeanOf(a) == Rat(SumOf(a), Len(a))

HasNullElement(a) == \E i \in 1..Len(a) : a[i] = NULL

ZonesUsable ==
    /\ inter.thermal_zones # NULL
    /\ Len(inter.thermal_zones.a) > 0
    /\ ~HasNullElement(inter.thermal_zones.a)

\* C1 as claimed: whenever thermal_zones is non-null (empty or not, whatever
\* its elements) cpu_temp comes from thermal_zones alone: it is the mean of a
\* non-empty array and is never supplied by sensors_cpu or sensors.
C1_Original ==
    (Done /\ inter.thermal_zones # NULL) =>
        /\ cpu_branch(inter, ansi) \notin {2, 3}
        /\ (ZonesUsable /\ canon # ERROR) => canon.cpu_temp = MeanOf(inter.thermal_zones.a)

\* C1 amended: when thermal_zones is non-null, non-empty and has no null
\* element, cpu_temp is the arithmetic mean of its elements and is supplied by
\* the thermal_zones branch, never by sensors_cpu or sensors; an empty array or
\* one with a null element yields no mean, and the value then comes from the
\* later branches (or the empty array's division raises under ANSI mode).
C1_ZonesMean ==
    (Done /\ inter.thermal_zones # NULL) =>
        IF ZonesUsable
        THEN /\ inter.cpu_value = MeanOf(inter.thermal_zones.a)
             /\ cpu_branch(inter, ansi) = 1
             /\ canon # ERROR => canon.cpu_temp = MeanOf(inter.thermal_zones.a)
        ELSE IF ansi /\ Len(inter.thermal_zones.a) = 0
             THEN inter.cpu_value = ERROR /\ canon = ERROR
             ELSE /\ cpu_branch(inter, ansi) # 1
                  /\ inter.sensors_cpu # NULL => inter.cpu_value = inter.sensors_cpu

C1_Witness ==
    /\ Done /\ ZonesUsable
    /\ inter.thermal_zones.a = <<Num(40), Num(44)>>
    /\ inter.sensors_cpu = Num(55)
    /\ canon # ERROR /\ canon.cpu_temp = Num(42)

\* scenario B's payload shape: cpu is an object with a numeric key sensors_cpu
\* and no thermal_zones key
FlatCpuPayload ==
    /\ PayloadAt(rec, <<"cpu", "sensors_cpu">>).t = "jnum"
    /\ PayloadAt(rec, <<"cpu", "thermal_zones">>) = Missing

\* the payload shape the code reads: cpu.sensors.CPU is a number, no thermal_zones key
NestedCpuPayload ==
    /\ PayloadAt(rec, <<"cpu", "sensors", "CPU">>).t = "jnum"
    /\ PayloadAt(rec, <<"cpu", "thermal_zones">>) = Missing

\* C4 as claimed: for a payload whose cpu object has the reading under the key
\* sensors_cpu and no thermal_zones key, the decoded sensors_cpu is that number
\* and cpu_temp equals it.
C4_Original ==
    (Done /\ FlatCpuPayload) =>
        /\ inter.sensors_cpu = Num(PayloadAt(rec, <<"cpu", "sensors_cpu">>).n)
        /\ canon # ERROR => canon.cpu_temp = Num(PayloadAt(rec, <<"cpu", "sensors_cpu">>).n)

\* C4 amended: the reading is decoded from the path cpu.sensors.CPU; for a
\* payload with a number there and no thermal_zones key the decoded sensors_cpu
\* is that number and cpu_temp equals it, while a key sensors_cpu directly under
\* cpu is not read (with cpu.sensors absent too, sensors_cpu and cpu_temp are null).
C4_NestedPath ==
    /\ (Done /\ NestedCpuPayload) =>
            /\ inter.sensors_cpu = Num(PayloadAt(rec, <<"cpu", "sensors", "CPU">>).n)
            /\ inter.cpu_value = inter.sensors_cpu
            /\ canon # ERROR => canon.cpu_temp = inter.sensors_cpu
    /\ (Done /\ FlatCpuPayload /\ PayloadAt(rec, <<"cpu", "sensors">>) = Missing) =>
            /\ inter.sensors_cpu = NULL
            /\ canon # ERROR => canon.cpu_temp = NULL

C4_Witness ==
    /\ Done /\ NestedCpuPayload
    /\ PayloadAt(rec, <<"cpu", "sensors_cpu">>) = Missing
    /\ Len(PayloadAt(rec, <<"cpu", "sensors">>).o) = 1
    /\ canon # ERROR /\ canon.cpu_temp = Num(55)

\* C6: with thermal_zones and sensors_cpu null and sensors non-null and
\* non-empty, cpu_temp is the value of the first entry of the payload's sensors
\* object, in the payload's order; no other entry has a say.
C6_FirstSensor ==
    (/\ Done
     /\ inter.thermal_zones = NULL /\ inter.sensors_cpu = NULL
     /\ inter.sensors # NULL /\ Len(inter.sensors.m) > 0) =>
        LET first == PayloadAt(rec, <<"cpu", "sensors">>).o[1].v
        IN /\ inter.cpu_value = FloatOf(first)
           /\ canon # ERROR => canon.cpu_temp = FloatOf(first)

C6_Witness ==
    /\ Done
    /\ inter.thermal_zones = NULL /\ inter.sensors_cpu = NULL
    /\ inter.sensors # NULL /\ Len(inter.sensors.m) = 2
    /\ inter.sensors.m[1].v = Num(60) /\ inter.sensors.m[2].v = Num(55)
    /\ canon # ERROR /\ canon.cpu_temp = Num(60)

\* C7: with thermal_zones null and sensors_cpu non-null, cpu_temp is sensors_cpu
\* exactly, whatever the sensors map holds.
C7_SensorsCpu ==
    (Done /\ inter.thermal_zones = NULL /\ inter.sensors_cpu \notin {NULL, ERROR}) =>
        /\ inter.cpu_value = inter.sensors_cpu
        /\ canon # ERROR => canon.cpu_temp = inter.sensors_cpu

C7_Witness ==
    /\ Done /\ inter.thermal_zones = NULL /\ inter.sensors_cpu = Num(55)
    /\ inter.sensors # NULL /\ inter.sensors.m[1].v = Num(60)
    /\ canon # ERROR /\ canon.cpu_temp = Num(55)

\* C8: with thermal_zones, sensors_cpu and sensors all null the derivation
\* yields null and raises nothing, and the emitted row has cpu_temp = null.
C8_AllNull ==
    (/\ Done
     /\ inter.thermal_zones = NULL /\ inter.sensors_cpu = NULL /\ inter.sensors = NULL) =>
        /\ inter.cpu_value = NULL
        /\ canon # ERROR => (canon.cpu_temp = NULL /\ canon.gpu_temp = 0)
        /\ canon = ERROR => inter.collected_at = ERROR

C8_Witness ==
    /\ Done
    /\ inter.thermal_zones = NULL /\ inter.sensors_cpu = NULL /\ inter.sensors = NULL
    /\ inter.device # NULL
    /\ canon # ERROR /\ canon.cpu_temp = NULL

\* --------------------------------------------- the pipeline, checked on Spec
Malformed(r) == r.value # NULL /\ ParseJson(CastString(r.value)) = Garbage

\* the row a record with an unparseable value turns into
NullRow(r) ==
    [key |-> CastString(r.key), device |-> NULL, collected_at |-> NULL,
     cpu_temp |-> NULL, gpu_temp |-> 0]

LastWritten == written[Len(written)]

EndsWith(s, tail) ==
    /\ Len(tail) <= Len(s)
    /\ SubSeq(s, Len(s) - Len(tail) + 1, Len(s)) = tail

RECURSIVE Flatten(_)
Flatten(ss) == IF ss = <<>> THEN <<>> ELSE Head(ss) \o Flatten(Tail(ss))

\* the step in which a write_to_postgres call returns
WriteReturns == phase = "Running" /\ phase' = "Committing"

\* C2: a failed sink write is never skipped: the failing batch's position is
\* not advanced, the query ends in Failed with the exception raised out of
\* start_streaming, and from then on no batch is constructed, written or committed.
C2_FailedWriteTerminal ==
    [][/\ (lastWrite # "failed" /\ lastWrite' = "failed") =>
            /\ committed' = committed /\ batchId' = batchId
            /\ phase' = "Failed" /\ result' = "raised"
       /\ lastWrite = "failed" => UNCHANGED pvars]_vars

C2_Witness ==
    /\ phase = "Failed" /\ lastWrite = "failed" /\ result = "raised"
    /\ batchId = 1 /\ Len(written) = 1 /\ Len(batch) = 2
    /\ committed = Len(written[1])

C5_Original ==
    [][(WriteReturns /\ batch = <<>> /\ mode \in {"append", "overwrite"}) =>
            sink' = sink]_vars

\* C5 amended: a write of an empty batch succeeds; in append mode it leaves the
\* destination's rows as they were, in overwrite mode it replaces them, so the
\* destination ends up empty.
C5_EmptyWrite ==
    [][(WriteReturns /\ batch = <<>>) =>
            /\ lastWrite' = "ok"
            /\ mode = "append" => sink' = sink
            /\ mode = "overwrite" => sink' = <<>>]_vars

C5_Witness ==
    /\ phase = "Committing" /\ batch = <<>> /\ lastWrite = "ok"
    /\ mode = "append" /\ sink0 = <<OldRow>> /\ sink = <<OldRow>>

C10_OverwriteKeepsLast ==
    /\ (mode = "overwrite" /\ lastWrite = "ok") => sink = LastWritten
    /\ (mode = "append" /\ lastWrite \in {"none", "ok"}) => sink = sink0 \o Flatten(written)

C10_Witness ==
    /\ mode = "overwrite" /\ lastWrite = "ok" /\ Len(written) = 2
    /\ written[1] # <<>> /\ written[2] # <<>> /\ written[1] # written[2]
    /\ sink0 = <<OldRow>> /\ sink = written[2]

====
